---- MODULE Spec2Model ----
(***************************************************************************)
(* moai-time: the gcode parser/accumulator (parse_file), the duration      *)
(* model (GcodeInfo::layer_change_time, laser_time, total_time), the       *)
(* duration formatter (PrettyDuration::fmt) and the report loop of main.   *)
(*                                                                         *)
(* Arithmetic.  The program computes in f64; the model computes exactly,   *)
(* in integers, at a fixed resolution:                                     *)
(*   Length    micrometres        (X/Y token values are given in um:       *)
(*                                 the token "X0.9" is the value 900)      *)
(*   Velocity  micrometres/second                                          *)
(*   Time      microseconds, or one of the two non-finite f64 values the   *)
(*             division by a zero feedrate produces (+inf, NaN)            *)
(*   Duration  std::time::Duration, [secs, nanos]                          *)
(* The inputs are drawn so that every quotient and square root is exact.   *)
(***************************************************************************)
EXTENDS Integers, Sequences, FiniteSets, TLC

VARIABLES
    slicer_estimated_duration,  \* GcodeInfo.slicer_estimated_duration : Option<Duration>
    layers,                     \* GcodeInfo.layers : Vec<GcodeLineInfo>
    current_x,                  \* parse_file locals
    current_y,
    current_feedrate,
    current_layer,              \* Option<usize>
    consumed,                   \* the lines reader.lines() has yielded so far
    pc,                         \* "reading" | "aborted" | "reported" | "panicked" | "fmt" | "fmt_done"
    report,                     \* what main has printed for the file
    d,                          \* PrettyDuration(d): the formatter's input
    out                         \* the text the formatter wrote

vars == <<slicer_estimated_duration, layers, current_x, current_y, current_feedrate,
          current_layer, consumed, pc, report, d, out>>

---------------------------------------------------------------------------
(* Bounds of the model *)

\* lines read from one file
MaxLines == 4
\* whole days of the durations handed to the formatter
MaxDays == 2

---------------------------------------------------------------------------
(* Numbers *)

MICROS_PER_SEC == 1000000
NANOS_PER_SEC == 1000000000
NANOS_PER_MILLI == 1000000
\* u64::MAX, the result of casting +inf to u64.  It is represented by the
\* largest integer of the model's arithmetic; every finite number of seconds
\* the model reaches is far below it.
U64Max == 2147483647
\* u32::MAX / 10 and u32::MAX % 10: the overflow tests of parse::<u32>
U32MaxDiv10 == 429496729
U32MaxMod10 == 5

None == [some |-> FALSE, v |-> 0]
Some(n) == [some |-> TRUE, v |-> n]

\* f64 values of Time: finite microseconds, +inf, NaN
Fin(us) == [k |-> "fin", v |-> us]
Inf == [k |-> "inf", v |-> 0]
NaN == [k |-> "nan", v |-> 0]

\* f64 addition on Time (Time += Time, Sum for Time)
TimeAdd(a, b) ==
    IF a.k = "nan" \/ b.k = "nan" THEN NaN
    ELSE IF a.k = "inf" \/ b.k = "inf" THEN Inf
    ELSE Fin(a.v + b.v)

\* f64 division Length / Velocity, in microseconds
TimeDiv(dist, feed) ==
    IF feed = 0
    THEN IF dist = 0 THEN NaN ELSE Inf
    ELSE Fin((dist * MICROS_PER_SEC) \div feed)

\* f64::sqrt of a non-negative number: the integer root by bisection (exact on
\* the squares the model reaches)
RECURSIVE SqrtIn(_, _, _)
SqrtIn(n, lo, hi) ==
    IF lo >= hi THEN lo
    ELSE LET mid == (lo + hi + 1) \div 2
         IN  IF mid * mid <= n THEN SqrtIn(n, mid, hi) ELSE SqrtIn(n, lo, mid - 1)

Abs(n) == IF n < 0 THEN -n ELSE n

\* ((delta_x * delta_x) + (delta_y * delta_y)).sqrt()
Hypot(dx, dy) == SqrtIn(dx * dx + dy * dy, 0, Abs(dx) + Abs(dy))

---------------------------------------------------------------------------
(* Input lines *)

\* A token of a move line: absent, a real number, or text that is no number
NoTok == [p |-> "absent", v |-> 0]
Tok(n) == [p |-> "ok", v |-> n]
BadTok == [p |-> "bad", v |-> 0]

\* The text after ";TIME:" / ";LAYER:" is a sequence of characters: decimal
\* digits 0..9, and BadChar for any other character.
BadChar == 10

TimeLine(num) == [kind |-> "TIME", num |-> num, x |-> NoTok, y |-> NoTok, f |-> NoTok]
LayerLine(num) == [kind |-> "LAYER", num |-> num, x |-> NoTok, y |-> NoTok, f |-> NoTok]
MoveLine(x, y, f) == [kind |-> "MOVE", num |-> <<>>, x |-> x, y |-> y, f |-> f]
OtherLine == [kind |-> "OTHER", num |-> <<>>, x |-> NoTok, y |-> NoTok, f |-> NoTok]

\* the lines a file is drawn from
TimeNums == { <<5>>, <<7>>, <<6, 6, 6, 6>>, <<4, 2, 9, 4, 9, 6, 7, 2, 9, 6>>, <<>> }
LayerNums == { <<0>>, <<1>>, <<3>>, <<BadChar>> }
Moves ==
    { MoveLine(Tok(900), Tok(1200), Tok(10)),
      MoveLine(Tok(900), NoTok, NoTok),
      MoveLine(Tok(0), Tok(0), NoTok),
      MoveLine(NoTok, NoTok, Tok(100000)),
      MoveLine(NoTok, NoTok, Tok(0)),
      MoveLine(BadTok, NoTok, NoTok),
      MoveLine(Tok(900), NoTok, BadTok) }
Lines ==
    { TimeLine(n) : n \in TimeNums } \cup { LayerLine(n) : n \in LayerNums }
        \cup Moves \cup { OtherLine }

---------------------------------------------------------------------------
(* parse_file *)

\* GcodeLineInfo::default()
ZeroRecord == [distance |-> 0, time |-> Fin(0)]

\* The parser's state: gcode_info and the four locals; ok is FALSE once a
\* parse (expect/unwrap) has panicked.
InitState ==
    [ slicer |-> None, layers |-> <<>>, x |-> 0, y |-> 0, feed |-> 0,
      layer |-> None, ok |-> TRUE ]

Panic(st) == [st EXCEPT !.ok = FALSE]

\* str::parse::<u32>: Err on the empty string, on a character that is no
\* digit, and when result * 10 + digit exceeds u32::MAX (checked_mul,
\* checked_add).  Err is [ok |-> FALSE].
RECURSIVE ParseDigits(_, _, _)
ParseDigits(num, i, acc) ==
    IF i > Len(num) THEN [ok |-> TRUE, v |-> acc]
    ELSE IF num[i] = BadChar THEN [ok |-> FALSE, v |-> 0]
    ELSE IF acc > U32MaxDiv10 \/ (acc = U32MaxDiv10 /\ num[i] > U32MaxMod10)
         THEN [ok |-> FALSE, v |-> 0]
    ELSE ParseDigits(num, i + 1, acc * 10 + num[i])

ParseU32(num) ==
    IF num = <<>> THEN [ok |-> FALSE, v |-> 0] ELSE ParseDigits(num, 1, 0)

\* str::parse::<usize>: Err on the empty string and on a character that is
\* no digit; the overflow of 64 bits needs a text of 20 digits, and the texts
\* of LayerNums have one
RECURSIVE ValueOf(_, _, _)
ValueOf(num, i, acc) ==
    IF i > Len(num) THEN acc ELSE ValueOf(num, i + 1, acc * 10 + num[i])

ParseUsize(num) ==
    IF num = <<>> \/ \E i \in 1..Len(num) : num[i] = BadChar
    THEN [ok |-> FALSE, v |-> 0]
    ELSE [ok |-> TRUE, v |-> ValueOf(num, 1, 0)]

\* the sentinel of Peopoly's slicer
FAKE_TIME == 6666

\* a parser that records the sentinel like any other estimate
ParseTimeLine_NoSentinel(st, line) ==
    LET t == ParseU32(line.num)
    IN  IF ~t.ok THEN Panic(st) ELSE [st EXCEPT !.slicer = Some(t.v)]

\* line.starts_with(";TIME:")
ParseTimeLine(st, line) ==
    LET t == ParseU32(line.num)
    IN  IF ~t.ok THEN Panic(st)
        ELSE IF t.v # FAKE_TIME THEN [st EXCEPT !.slicer = Some(t.v)]
        ELSE st

\* a growth loop that pushes one record too many
RECURSIVE GrowTo_OneTooMany(_, _)
GrowTo_OneTooMany(ls, layer_index) ==
    IF layer_index + 1 < Len(ls) THEN ls
    ELSE GrowTo_OneTooMany(Append(ls, ZeroRecord), layer_index)

\* loop { match layers.get_mut(layer_index) { None => push(default), Some(li) => break } }
RECURSIVE GrowTo(_, _)
GrowTo(ls, layer_index) ==
    IF layer_index + 1 <= Len(ls) THEN ls
    ELSE GrowTo(Append(ls, ZeroRecord), layer_index)

\* a marker that also sends the head back to the origin
ParseLayerLine_ResetsHead(st, line) ==
    LET cl == ParseUsize(line.num)
    IN  IF ~cl.ok THEN Panic(st) ELSE [st EXCEPT !.layer = Some(cl.v), !.x = 0, !.y = 0]

\* a marker that creates the record of its layer
ParseLayerLine_AddsRecord(st, line) ==
    LET cl == ParseUsize(line.num)
    IN  IF ~cl.ok THEN Panic(st)
        ELSE [st EXCEPT !.layer = Some(cl.v), !.layers = GrowTo(st.layers, cl.v)]

\* line.starts_with(";LAYER:")
ParseLayerLine(st, line) ==
    LET cl == ParseUsize(line.num)
    IN  IF ~cl.ok THEN Panic(st) ELSE [st EXCEPT !.layer = Some(cl.v)]

\* an unwrap_or that falls back to the origin, not to the current value
UnwrapOr_Default(tok, current) == IF tok.p = "ok" THEN tok.v ELSE 0

\* x.unwrap_or(current)
UnwrapOr(tok, current) == IF tok.p = "ok" THEN tok.v ELSE current

\* ("F", s) => Velocity::new::<micrometer_per_second>(s.parse::<f64>().unwrap() * 60.0)
FeedOf(tok) == IF tok.p = "ok" THEN Tok(tok.v * 60) ELSE tok

\* a move branch that stores the move in the record instead of adding it
MoveAt_Overwrites(st, line, layer_index) ==
    IF line.x.p = "bad" \/ line.y.p = "bad" \/ line.f.p = "bad" THEN Panic(st)
    ELSE
        LET new_x == UnwrapOr(line.x, st.x)
            new_y == UnwrapOr(line.y, st.y)
            new_feed == UnwrapOr(FeedOf(line.f), st.feed)
            this_distance == Hypot(new_x - st.x, new_y - st.y)
            this_time == TimeDiv(this_distance, new_feed)
            grown == GrowTo(st.layers, layer_index)
        IN  [st EXCEPT
                !.x = new_x, !.y = new_y, !.feed = new_feed,
                !.layers = [grown EXCEPT ![layer_index + 1] =
                               [distance |-> this_distance, time |-> this_time]]]

\* a move branch that drops a value it cannot parse instead of panicking
MoveAt_IgnoresBad(st, line, layer_index) ==
    LET new_x == UnwrapOr(line.x, st.x)
        new_y == UnwrapOr(line.y, st.y)
        new_feed == UnwrapOr(FeedOf(line.f), st.feed)
        this_distance == Hypot(new_x - st.x, new_y - st.y)
        this_time == TimeDiv(this_distance, new_feed)
        grown == GrowTo(st.layers, layer_index)
        li == grown[layer_index + 1]
    IN  [st EXCEPT
            !.x = new_x, !.y = new_y, !.feed = new_feed,
            !.layers = [grown EXCEPT ![layer_index + 1] =
                           [distance |-> li.distance + this_distance,
                            time |-> TimeAdd(li.time, this_time)]]]

\* the body of the move branch once the layer index is known: the tokens,
\* the head state, the displacement and the accumulation
MoveAt(st, line, layer_index) ==
    IF line.x.p = "bad" \/ line.y.p = "bad" \/ line.f.p = "bad" THEN Panic(st)
    ELSE
        LET new_x == UnwrapOr(line.x, st.x)
            new_y == UnwrapOr(line.y, st.y)
            new_feed == UnwrapOr(FeedOf(line.f), st.feed)
            this_distance == Hypot(new_x - st.x, new_y - st.y)
            this_time == TimeDiv(this_distance, new_feed)
            grown == GrowTo(st.layers, layer_index)
            li == grown[layer_index + 1]
        IN  [st EXCEPT
                !.x = new_x, !.y = new_y, !.feed = new_feed,
                !.layers = [grown EXCEPT ![layer_index + 1] =
                               [distance |-> li.distance + this_distance,
                                time |-> TimeAdd(li.time, this_time)]]]

\* a parser that books a move made before the first layer marker on layer 0
ParseMoveLine_NoSkip(st, line) ==
    MoveAt(st, line, IF st.layer.some THEN st.layer.v ELSE 0)

\* line.starts_with("G0 ") || line.starts_with("G1 "): without a current
\* layer the line is skipped (continue)
ParseMoveLine(st, line) ==
    IF ~st.layer.some THEN st ELSE MoveAt(st, line, st.layer.v)

\* the body of `for line in reader.lines()`
Step(st, line) ==
    CASE line.kind = "TIME" -> ParseTimeLine(st, line)
      [] line.kind = "LAYER" -> ParseLayerLine(st, line)
      [] line.kind = "MOVE" -> ParseMoveLine(st, line)
      [] OTHER -> st

\* parse_file on a whole sequence of lines; a panic ends it
RECURSIVE ParseFrom(_, _, _)
ParseFrom(st, lines, i) ==
    IF i > Len(lines) \/ ~st.ok THEN st
    ELSE ParseFrom(Step(st, lines[i]), lines, i + 1)

parse_file(lines) == ParseFrom(InitState, lines, 1)

---------------------------------------------------------------------------
(* GcodeInfo: the three derived durations *)

\* std::time::Duration::new(secs, nanos): nanos beyond a second carry into secs
DurationNew(secs, nanos) ==
    [secs |-> secs + nanos \div NANOS_PER_SEC, nanos |-> nanos % NANOS_PER_SEC]

\* secs.floor() as u64: the cast saturates, +inf gives u64::MAX and NaN gives 0
FloorAsU64(t) ==
    CASE t.k = "fin" -> t.v \div MICROS_PER_SEC
      [] t.k = "inf" -> U64Max
      [] OTHER -> 0

\* (secs.fract() * 1_000_000.0).floor() as u32: fract() of +inf and of NaN is NaN
FractMicrosAsU32(t) ==
    CASE t.k = "fin" -> t.v % MICROS_PER_SEC
      [] OTHER -> 0

\* Duration::new(secs.floor() as u64, (secs.fract() * 1_000_000.0).floor() as u32):
\* the second argument of Duration::new is a number of nanoseconds
ToDuration(t) == DurationNew(FloorAsU64(t), FractMicrosAsU32(t))

\* the per-layer overhead, Time::new::<second>(9.5)
LAYER_CHANGE_MICROS == 9500000

layer_change_time(ls) == ToDuration(Fin(LAYER_CHANGE_MICROS * Len(ls)))

\* self.layers.iter().map(|l| l.time).sum()
RECURSIVE SumTimes(_, _)
SumTimes(ls, i) ==
    IF i > Len(ls) THEN Fin(0) ELSE TimeAdd(ls[i].time, SumTimes(ls, i + 1))

laser_time(ls) == ToDuration(SumTimes(ls, 1))

\* Duration + Duration: checked_add(..).expect("overflow when adding durations");
\* [some |-> FALSE] is the panic
NoDuration == [some |-> FALSE, v |-> [secs |-> 0, nanos |-> 0]]

DurationAdd(a, b) ==
    IF a.secs > U64Max - b.secs THEN NoDuration
    ELSE LET secs == a.secs + b.secs
             nanos == a.nanos + b.nanos
         IN  IF nanos >= NANOS_PER_SEC
             THEN IF secs > U64Max - 1 THEN NoDuration
                  ELSE [some |-> TRUE, v |-> [secs |-> secs + 1, nanos |-> nanos - NANOS_PER_SEC]]
             ELSE [some |-> TRUE, v |-> [secs |-> secs, nanos |-> nanos]]

total_time(ls) == DurationAdd(layer_change_time(ls), laser_time(ls))

---------------------------------------------------------------------------
(* PrettyDuration::fmt *)

SECONDS_PER_MINUTE == 60
MINUTES_PER_HOUR == 60
SECONDS_PER_HOUR == SECONDS_PER_MINUTE * MINUTES_PER_HOUR
HOURS_PER_DAY == 24
SECONDS_PER_DAY == SECONDS_PER_HOUR * HOURS_PER_DAY

\* "{}"
Str(n) == ToString(n)

\* "{:>04}": at least four characters, filled with zeros before the digits
Pad04(n) ==
    IF n < 10 THEN "000" \o Str(n)
    ELSE IF n < 100 THEN "00" \o Str(n)
    ELSE IF n < 1000 THEN "0" \o Str(n)
    ELSE Str(n)

\* the arms (0, 0, 0, _)
FmtSeconds(seconds, millis) ==
    IF seconds = 0 /\ millis = 0 THEN "0 seconds"
    ELSE IF seconds = 1 /\ millis = 0 THEN "1 second"
    ELSE Str(seconds) \o "." \o Pad04(millis) \o " seconds"

\* the arms (0, 0, m, _), m > 0
FmtMinutes(minutes, seconds) ==
    IF minutes = 1
    THEN IF seconds = 0 THEN "1 minute"
         ELSE IF seconds = 1 THEN "1 minute and 1 second"
         ELSE "1 minute and " \o Str(seconds) \o " seconds"
    ELSE IF seconds = 0 THEN Str(minutes) \o " minutes"
         ELSE IF seconds = 1 THEN Str(minutes) \o " minutes 1 second"
         ELSE Str(minutes) \o " minutes and " \o Str(seconds) \o " seconds"

\* the arms (0, h, _, _), h > 0
FmtHours(hours, minutes) ==
    IF hours = 1
    THEN IF minutes = 0 THEN "1 hour"
         ELSE IF minutes = 1 THEN "1 hour and 1 minute"
         ELSE "1 hour and " \o Str(minutes) \o " minutes"
    ELSE IF minutes = 0 THEN Str(hours) \o " hours"
         ELSE IF minutes = 1 THEN Str(hours) \o " hours and 1 minute"
         ELSE Str(hours) \o " hours and " \o Str(minutes) \o " minutes"

\* the arms (1, _, _, _)
FmtOneDay(hours, minutes) ==
    IF hours = 0
    THEN IF minutes = 0 THEN "1 day"
         ELSE IF minutes = 1 THEN "1 day and 1 minute"
         ELSE "1 day and " \o Str(minutes) \o " minutes"
    ELSE IF hours = 1
    THEN IF minutes = 0 THEN "1 day and 1 hour"
         ELSE IF minutes = 1 THEN "1 day, 1 hour, and 1 minute"
         ELSE "1 day, 1 hour, and " \o Str(minutes) \o " minutes"
    ELSE IF minutes = 0 THEN "1 day and " \o Str(hours) \o " hours"
         ELSE IF minutes = 1 THEN "1 day, " \o Str(hours) \o " hours, and 1 minute"
         ELSE "1 day, " \o Str(hours) \o " hours, and " \o Str(minutes) \o " minutes"

\* the arms (d, _, _, _), d > 1
FmtDays(days, hours, minutes) ==
    IF hours = 0
    THEN IF minutes = 0 THEN Str(days) \o " days"
         ELSE IF minutes = 1 THEN Str(days) \o " days and 1 minute"
         ELSE Str(days) \o " days and " \o Str(minutes) \o " minutes"
    ELSE IF hours = 1
    THEN IF minutes = 0 THEN Str(days) \o " days and 1 hour"
         ELSE IF minutes = 1 THEN Str(days) \o " days, 1 hour, and 1 minute"
         ELSE Str(days) \o " days, 1 hour, and " \o Str(minutes) \o " minutes"
    ELSE IF minutes = 0 THEN Str(days) \o " days and " \o Str(hours) \o " hours"
         ELSE IF minutes = 1
              THEN Str(days) \o " days, " \o Str(hours) \o " hours, and 1 minute"
         ELSE Str(days) \o " days, " \o Str(hours) \o " hours, and "
                  \o Str(minutes) \o " minutes"

\* the split of d.as_secs() into days, hours, minutes, seconds
Days(dur) == dur.secs \div SECONDS_PER_DAY
Hours(dur) == (dur.secs % SECONDS_PER_DAY) \div SECONDS_PER_HOUR
Minutes(dur) == ((dur.secs % SECONDS_PER_DAY) % SECONDS_PER_HOUR) \div SECONDS_PER_MINUTE
Seconds(dur) == ((dur.secs % SECONDS_PER_DAY) % SECONDS_PER_HOUR) % SECONDS_PER_MINUTE
\* d.subsec_millis()
SubsecMillis(dur) == dur.nanos \div NANOS_PER_MILLI

\* a formatter that keeps the seconds beside hours and days
Fmt_KeepsSeconds(dur) ==
    IF Days(dur) = 0 /\ Hours(dur) = 0 /\ Minutes(dur) = 0
        THEN FmtSeconds(Seconds(dur), SubsecMillis(dur))
    ELSE IF Days(dur) = 0 /\ Hours(dur) = 0 THEN FmtMinutes(Minutes(dur), Seconds(dur))
    ELSE (IF Days(dur) = 0 THEN FmtHours(Hours(dur), Minutes(dur))
          ELSE IF Days(dur) = 1 THEN FmtOneDay(Hours(dur), Minutes(dur))
          ELSE FmtDays(Days(dur), Hours(dur), Minutes(dur)))
         \o (IF Seconds(dur) = 0 THEN "" ELSE " and " \o Str(Seconds(dur)) \o " seconds")

\* match (days, hours, minutes, seconds)
Fmt(dur) ==
    IF Days(dur) = 0 /\ Hours(dur) = 0 /\ Minutes(dur) = 0
        THEN FmtSeconds(Seconds(dur), SubsecMillis(dur))
    ELSE IF Days(dur) = 0 /\ Hours(dur) = 0 THEN FmtMinutes(Minutes(dur), Seconds(dur))
    ELSE IF Days(dur) = 0 THEN FmtHours(Hours(dur), Minutes(dur))
    ELSE IF Days(dur) = 1 THEN FmtOneDay(Hours(dur), Minutes(dur))
    ELSE FmtDays(Days(dur), Hours(dur), Minutes(dur))

---------------------------------------------------------------------------
(* The program: main reads each file with parse_file and prints its report *)

ZeroDuration == [secs |-> 0, nanos |-> 0]
NoReport == [slicer |-> "", total |-> "", laser |-> "", layer_change |-> ""]

\* the parser's state, as one record
State ==
    [ slicer |-> slicer_estimated_duration, layers |-> layers, x |-> current_x,
      y |-> current_y, feed |-> current_feedrate, layer |-> current_layer,
      ok |-> pc # "aborted" ]

\* the state after the handler of one line
Becomes(st, line) ==
    /\ slicer_estimated_duration' = st.slicer
    /\ layers' = st.layers
    /\ current_x' = st.x
    /\ current_y' = st.y
    /\ current_feedrate' = st.feed
    /\ current_layer' = st.layer
    /\ consumed' = Append(consumed, line)
    /\ pc' = IF st.ok THEN "reading" ELSE "aborted"
    /\ UNCHANGED <<report, d, out>>

CanRead == pc = "reading" /\ Len(consumed) < MaxLines

Init ==
    /\ slicer_estimated_duration = InitState.slicer
    /\ layers = InitState.layers
    /\ current_x = InitState.x
    /\ current_y = InitState.y
    /\ current_feedrate = InitState.feed
    /\ current_layer = InitState.layer
    /\ consumed = <<>>
    /\ pc = "reading"
    /\ report = NoReport
    /\ d = ZeroDuration
    /\ out = ""

ReadTimeLine ==
    /\ CanRead
    /\ \E num \in TimeNums : Becomes(ParseTimeLine(State, TimeLine(num)), TimeLine(num))

ReadLayerLine ==
    /\ CanRead
    /\ \E num \in LayerNums : Becomes(ParseLayerLine(State, LayerLine(num)), LayerLine(num))

ReadMoveLine ==
    /\ CanRead
    /\ \E line \in Moves : Becomes(ParseMoveLine(State, line), line)

ReadOtherLine ==
    /\ CanRead
    /\ Becomes(State, OtherLine)

\* main, after parse_file has returned Ok: total_time() is computed first and
\* panics when the addition overflows; otherwise the report is printed
Report ==
    /\ pc = "reading"
    /\ LET total == total_time(layers)
       IN  IF ~total.some
           THEN pc' = "panicked" /\ report' = NoReport
           ELSE /\ pc' = "reported"
                /\ report' =
                     [ slicer |-> IF slicer_estimated_duration.some
                                  THEN Fmt([secs |-> slicer_estimated_duration.v, nanos |-> 0])
                                  ELSE "",
                       total |-> Fmt(total.v),
                       laser |-> Fmt(laser_time(layers)),
                       layer_change |-> Fmt(layer_change_time(layers)) ]
    /\ UNCHANGED <<slicer_estimated_duration, layers, current_x, current_y,
                   current_feedrate, current_layer, consumed, d, out>>

\* a parser whose head position and feedrate outlive the file (statics)
NextFile_KeepsHead ==
    /\ pc = "reported"
    /\ slicer_estimated_duration' = InitState.slicer
    /\ layers' = InitState.layers
    /\ current_layer' = InitState.layer
    /\ consumed' = <<>>
    /\ pc' = "reading"
    /\ report' = NoReport
    /\ UNCHANGED <<current_x, current_y, current_feedrate, d, out>>

\* the next filename of main's loop: parse_file starts from fresh locals
NextFile ==
    /\ pc = "reported"
    /\ slicer_estimated_duration' = InitState.slicer
    /\ layers' = InitState.layers
    /\ current_x' = InitState.x
    /\ current_y' = InitState.y
    /\ current_feedrate' = InitState.feed
    /\ current_layer' = InitState.layer
    /\ consumed' = <<>>
    /\ pc' = "reading"
    /\ report' = NoReport
    /\ UNCHANGED <<d, out>>

Next ==
    \/ ReadTimeLine
    \/ ReadLayerLine
    \/ ReadMoveLine
    \/ ReadOtherLine
    \/ Report
    \/ NextFile

Spec == Init /\ [][Next]_vars

---------------------------------------------------------------------------
(* The formatter alone, on durations drawn from a bounded set *)

FmtInputs ==
    { [ secs |-> dd * SECONDS_PER_DAY + hh * SECONDS_PER_HOUR + mm * SECONDS_PER_MINUTE + ss,
        nanos |-> nn ] :
        dd \in 0..MaxDays, hh \in {0, 1, 2, 23}, mm \in {0, 1, 2, 59}, ss \in {0, 1, 2, 59},
        nn \in {0, 500000, 5000000, 500000000, 999999999} }

InitFmt ==
    /\ slicer_estimated_duration = InitState.slicer
    /\ layers = InitState.layers
    /\ current_x = InitState.x
    /\ current_y = InitState.y
    /\ current_feedrate = InitState.feed
    /\ current_layer = InitState.layer
    /\ consumed = <<>>
    /\ pc = "fmt"
    /\ report = NoReport
    /\ d \in FmtInputs
    /\ out = ""

\* write!(f, ...) of PrettyDuration(d)
FormatDuration ==
    /\ pc = "fmt"
    /\ out' = Fmt(d)
    /\ pc' = "fmt_done"
    /\ UNCHANGED <<slicer_estimated_duration, layers, current_x, current_y,
                   current_feedrate, current_layer, consumed, report, d>>

NextFmt == FormatDuration

SpecFmt == InitFmt /\ [][NextFmt]_vars

---------------------------------------------------------------------------
(* Properties of the duration model *)

\* parse_file has returned Ok(gcode_info) and main has used it
Returned == pc \in {"reported", "panicked"}

\* C1: layer_change_time() is exactly 9.5 seconds times the number of records
\* of the layer table: n records give a Duration of 9.5 * n seconds.
C1_LayerChangeTimeIs9500msPerRecord ==
    Returned =>
        layer_change_time(layers) =
            [ secs |-> (19 * Len(layers)) \div 2,
              nanos |-> IF Len(layers) % 2 = 1 THEN NANOS_PER_SEC \div 2 ELSE 0 ]

\* C2: laser_time() is the sum of the records' times, as floor(sum) whole
\* seconds plus floor(fract(sum) * 10^6) microseconds.
C2_LaserTimeIsSumAtMicrosecondResolution ==
    (Returned /\ SumTimes(layers, 1).k = "fin") =>
        laser_time(layers) =
            [ secs |-> SumTimes(layers, 1).v \div MICROS_PER_SEC,
              nanos |-> (SumTimes(layers, 1).v % MICROS_PER_SEC) * (NANOS_PER_SEC \div MICROS_PER_SEC) ]

\* C3: for every ParseResult, total_time() yields exactly
\* layer_change_time() + laser_time().
C3_TotalIsLayerChangePlusLaser ==
    Returned =>
        LET a == layer_change_time(layers)
            b == laser_time(layers)
            t == total_time(layers)
        IN  /\ t.some
            /\ t.v.secs = a.secs + b.secs + (a.nanos + b.nanos) \div NANOS_PER_SEC
            /\ t.v.nanos = (a.nanos + b.nanos) % NANOS_PER_SEC

---------------------------------------------------------------------------
(* Properties of the parser, stated over the lines read so far *)

\* the text is a non-negative integer in decimal
IsNatural(num) == num # <<>> /\ \A i \in 1..Len(num) : num[i] \in 0..9

\* the decimal digits of a number
RECURSIVE Digits(_)
Digits(n) == IF n < 10 THEN <<n>> ELSE Append(Digits(n \div 10), n % 10)

SentinelText == <<6, 6, 6, 6>>
U32MaxText == <<4, 2, 9, 4, 9, 6, 7, 2, 9, 5>>

\* num <= other, for two texts of the same length without leading zeros
RECURSIVE TextLeq(_, _, _)
TextLeq(num, other, i) ==
    IF i > Len(num) THEN TRUE
    ELSE IF num[i] # other[i] THEN num[i] < other[i]
    ELSE TextLeq(num, other, i + 1)

FitsU32(num) ==
    Len(num) < Len(U32MaxText) \/ (Len(num) = Len(U32MaxText) /\ TextLeq(num, U32MaxText, 1))

SetMax(S) == CHOOSE m \in S : \A n \in S : n <= m

\* the ";TIME:<n>" lines whose n is a non-negative integer other than 6666
DeclaringLines ==
    { i \in 1..Len(consumed) :
        /\ consumed[i].kind = "TIME"
        /\ IsNatural(consumed[i].num)
        /\ consumed[i].num # SentinelText }

\* those among them whose n is at most u32::MAX
DeclaringLinesU32 == { i \in DeclaringLines : FitsU32(consumed[i].num) }

\* the slicer-declared duration is the value of the last line of S, and is
\* absent when S is empty
SlicerIsLastOf(S) ==
    IF S = {} THEN ~slicer_estimated_duration.some
    ELSE /\ slicer_estimated_duration.some
         /\ Digits(slicer_estimated_duration.v) = consumed[SetMax(S)].num

\* C4 (as claimed): the slicer-declared duration is the value of the last
\* ';TIME:<n>' line whose n is a non-negative integer other than 6666, and is
\* absent if there is none; every such n sets it.
C4_SlicerIsLastDeclaredTime == SlicerIsLastOf(DeclaringLines)

\* C4 (amended): the slicer-declared duration is the value of the last
\* ';TIME:<n>' line whose n is a non-negative integer of at most u32::MAX
\* (4294967295) other than 6666, and is absent if there is none; ';TIME:6666'
\* neither sets nor clears it; a larger n sets nothing and aborts the parse.
C4_SlicerIsLastDeclaredU32Time ==
    /\ SlicerIsLastOf(DeclaringLinesU32)
    /\ \A i \in DeclaringLines \ DeclaringLinesU32 : i = Len(consumed) /\ pc = "aborted"

\* a valid estimate, a second one overwriting it, and the sentinel after them
C4_Witness ==
    /\ Len(consumed) = 3
    /\ consumed[1] = TimeLine(<<5>>)
    /\ consumed[2] = TimeLine(<<7>>)
    /\ consumed[3] = TimeLine(SentinelText)
    /\ slicer_estimated_duration = Some(7)
    /\ pc = "reading"


\* the position of the first ";LAYER:" line, or past the end if there is none
FirstLayerLine(lines) ==
    IF \E i \in 1..Len(lines) : lines[i].kind = "LAYER"
    THEN CHOOSE i \in 1..Len(lines) :
             lines[i].kind = "LAYER" /\ \A j \in 1..(i - 1) : lines[j].kind # "LAYER"
    ELSE Len(lines) + 1

\* the lines with every move line before the first layer marker deleted
RECURSIVE DropEarlyMovesFrom(_, _)
DropEarlyMovesFrom(lines, i) ==
    IF i > Len(lines) THEN <<>>
    ELSE IF lines[i].kind = "MOVE" /\ i < FirstLayerLine(lines)
         THEN DropEarlyMovesFrom(lines, i + 1)
    ELSE <<lines[i]>> \o DropEarlyMovesFrom(lines, i + 1)

DropEarlyMoves(lines) == DropEarlyMovesFrom(lines, 1)

\* C5: move lines before the first ';LAYER:' marker contribute nothing:
\* parsing the input with those lines deleted gives the same per-layer table
\* (record count, distances, times), the same head state, the same
\* slicer-declared duration, the same outcome and the same derived durations.
C5_MovesBeforeFirstLayerContributeNothing ==
    LET without == parse_file(DropEarlyMoves(consumed))
    IN  /\ without.layers = layers
        /\ without.x = current_x /\ without.y = current_y
        /\ without.feed = current_feedrate
        /\ without.slicer = slicer_estimated_duration
        /\ without.ok = (pc # "aborted")
        /\ layer_change_time(without.layers) = layer_change_time(layers)
        /\ laser_time(without.layers) = laser_time(layers)
        /\ total_time(without.layers) = total_time(layers)

\* a move (with its own feedrate) before the first marker, the same move after
\* it: the record holds the second move alone, measured from the origin
C5_Witness ==
    /\ Len(consumed) = 3
    /\ consumed[1] = MoveLine(Tok(900), Tok(1200), Tok(10))
    /\ consumed[2] = LayerLine(<<0>>)
    /\ consumed[3] = MoveLine(Tok(900), Tok(1200), Tok(10))
    /\ layers = <<[distance |-> 1500, time |-> Fin(2500000)]>>

\* the ";LAYER:<n>" lines that were parsed: position -> index
MarkerLines == { i \in 1..Len(consumed) :
                    consumed[i].kind = "LAYER" /\ ParseUsize(consumed[i].num).ok }
MarkerIndex(i) == ParseUsize(consumed[i].num).v
HighestMarker == SetMax({ MarkerIndex(i) : i \in MarkerLines })

\* two successive markers, the later one more than one above the earlier
MarkersJump ==
    \E i, j \in MarkerLines :
        /\ i < j
        /\ \A k \in MarkerLines : ~(i < k /\ k < j)
        /\ MarkerIndex(j) > MarkerIndex(i) + 1

\* the index that was current when line i was handled (i follows a marker)
CurrentAt(i) == MarkerIndex(SetMax({ k \in MarkerLines : k < i }))

\* the move lines that were accumulated (after a marker, and without a panic)
AccumulatedMoves ==
    { i \in 1..Len(consumed) :
        /\ consumed[i].kind = "MOVE"
        /\ \E k \in MarkerLines : k < i
        /\ (i < Len(consumed) \/ pc # "aborted") }

\* no marker names the index
Skipped(index) == \A i \in MarkerLines : MarkerIndex(i) # index

\* one record per index up to the highest marker, the skipped ones zero, and
\* layer_change_time counting them all
FilledUpToHighestMarker ==
    /\ Len(layers) = HighestMarker + 1
    /\ \A index \in 0..HighestMarker : Skipped(index) => layers[index + 1] = ZeroRecord
    /\ layer_change_time(layers).secs = (19 * (HighestMarker + 1)) \div 2

\* C6 (as claimed): when the layer markers jump to a higher non-adjacent
\* index, the table has one record for every index from 0 to the highest
\* marker index, the skipped records are zero and layer_change_time counts
\* all of them.
C6_JumpFillsTable ==
    (MarkersJump /\ pc # "aborted") => FilledUpToHighestMarker

\* C6 (amended): when the layer markers jump to a higher non-adjacent index
\* and a qualifying move is processed while the highest marker index is
\* current, the table has one record for every index from 0 to the highest
\* marker index, the records of indices no marker names are zero and
\* layer_change_time counts all of them (its whole seconds are
\* floor(9.5 * (highest + 1))).
C6_JumpFillsTableOnceMoved ==
    (MarkersJump /\ \E i \in AccumulatedMoves : CurrentAt(i) = HighestMarker)
        => FilledUpToHighestMarker

\* markers 0 and 3 with a move under each: four records, 1 and 2 zero
C6_Witness ==
    /\ Len(consumed) = 4
    /\ consumed[1] = LayerLine(<<0>>)
    /\ consumed[2] = MoveLine(Tok(900), Tok(1200), Tok(10))
    /\ consumed[3] = LayerLine(<<3>>)
    /\ consumed[4] = MoveLine(Tok(0), Tok(0), NoTok)
    /\ Len(layers) = 4
    /\ layers[2] = ZeroRecord /\ layers[3] = ZeroRecord
    /\ layers[4] = [distance |-> 1500, time |-> Fin(2500000)]
    /\ pc = "reported"

\* a move line with an F token and neither X nor Y
FOnly(line) ==
    line.kind = "MOVE" /\ line.x.p = "absent" /\ line.y.p = "absent" /\ line.f.p = "ok"

\* C7: a qualifying move line with an F token and no X and no Y token adds
\* zero distance and zero time to the current layer's record, whatever the
\* head position and feedrate were before: the record is what it was (a zero
\* record if the line created it).
C7_FOnlyMoveAddsNothing ==
    [][ ( /\ current_layer.some
          /\ Len(consumed') = Len(consumed) + 1
          /\ FOnly(consumed'[Len(consumed')]) )
        => layers'[current_layer.v + 1] =
               IF current_layer.v + 1 <= Len(layers)
               THEN layers[current_layer.v + 1] ELSE ZeroRecord ]_vars

---------------------------------------------------------------------------
(* Properties of the formatter *)

Formatted == pc = "fmt_done"

\* three decimal digits
Pad3(n) ==
    IF n < 10 THEN "00" \o Str(n) ELSE IF n < 100 THEN "0" \o Str(n) ELSE Str(n)

\* the duration in seconds as a decimal number with four fractional digits:
\* the whole seconds, the milliseconds as the first three decimals, and a 0
DecimalSeconds(dur) == Str(dur.secs) \o "." \o Pad3(SubsecMillis(dur)) \o "0"

\* C8: a duration under one minute with a nonzero fractional part, or whose
\* whole seconds are not 1, renders as '<secs>.<dddd> seconds' where the
\* printed decimal number is the duration in seconds to millisecond precision
\* (1.5 s renders as "1.5000 seconds").  Stated for the non-zero durations of
\* whole milliseconds.
C8_FractionalSecondsPrintTheDuration ==
    ( /\ Formatted
      /\ d.secs < SECONDS_PER_MINUTE
      /\ d # ZeroDuration
      /\ d.nanos % NANOS_PER_MILLI = 0
      /\ (d.nanos # 0 \/ d.secs # 1) )
    => out = DecimalSeconds(d) \o " seconds"

\* "1 day", "3 hours": a unit with its count, plural unless the count is 1
Unit(n, name) == Str(n) \o " " \o name \o (IF n = 1 THEN "" ELSE "s")

\* the units a phrase shows, largest first: the non-zero ones among minutes
\* and whole seconds below one hour, among days, hours and minutes from one
\* hour on
Shown(dur) ==
    LET units ==
            IF Days(dur) = 0 /\ Hours(dur) = 0
            THEN << <<Minutes(dur), "minute">>, <<Seconds(dur), "second">> >>
            ELSE << <<Days(dur), "day">>, <<Hours(dur), "hour">>, <<Minutes(dur), "minute">> >>
    IN  SelectSeq(units, LAMBDA u : u[1] # 0)

\* a natural-language list: "a and b", "a, b, and c"
Listed(units) ==
    IF Len(units) = 2
    THEN Unit(units[1][1], units[1][2]) \o " and " \o Unit(units[2][1], units[2][2])
    ELSE Unit(units[1][1], units[1][2]) \o ", " \o Unit(units[2][1], units[2][2])
             \o ", and " \o Unit(units[3][1], units[3][2])

\* C9: a phrase that shows more than one unit joins two units by ' and ' and
\* three units by ', ' and ', and ', for every combination of day, hour,
\* minute and second values.
C9_UnitsJoinedAsNaturalList ==
    (Formatted /\ Minutes(d) + Hours(d) + Days(d) > 0 /\ Len(Shown(d)) > 1)
        => out = Listed(Shown(d))

\* C10: from one hour on the seconds are dropped: every duration with the
\* same days, hours and minutes renders to the same phrase whatever its
\* seconds and sub-second part (3661 s is '1 hour and 1 minute', 176461 s is
\* '2 days, 1 hour, and 1 minute'); from one minute up to one hour the seconds
\* are shown as a whole number, without fractional digits.
C10_SecondsDroppedFromOneHour ==
    Formatted =>
        /\ d.secs >= SECONDS_PER_HOUR =>
              \A e \in FmtInputs :
                  (Days(e) = Days(d) /\ Hours(e) = Hours(d) /\ Minutes(e) = Minutes(d))
                      => Fmt(e) = out
        /\ (d.secs = 3661) => out = "1 hour and 1 minute"
        /\ (d.secs = 176461) => out = "2 days, 1 hour, and 1 minute"
        /\ (d.secs >= SECONDS_PER_MINUTE /\ d.secs < SECONDS_PER_HOUR) =>
              IF Seconds(d) = 0 THEN out = Unit(Minutes(d), "minute")
              ELSE out \in { Unit(Minutes(d), "minute") \o sep \o Unit(Seconds(d), "second") :
                               sep \in {" and ", " "} }

\* 2 days, 1 hour, 1 minute, 1 second and a half: seconds and fraction dropped
C10_Witness ==
    /\ Formatted
    /\ d = [secs |-> 176461, nanos |-> 500000000]
    /\ out = "2 days, 1 hour, and 1 minute"


\* the fractional form '<secs>.<dddd> seconds', with the three millisecond
\* digits and one zero in either order
FractionalForms(dur) ==
    { Str(dur.secs) \o "." \o frac \o " seconds" :
        frac \in { Pad3(SubsecMillis(dur)) \o "0", "0" \o Pad3(SubsecMillis(dur)) } }

\* C11: the zero duration renders '0 seconds', exactly one whole second
\* renders '1 second', and every other duration under one minute with a
\* nonzero fractional part, of any sub-second magnitude, renders in the
\* fractional form, never as '0 seconds' or '1 second'.
C11_OnlyWholeZeroAndOneAreBare ==
    (Formatted /\ d.secs < SECONDS_PER_MINUTE) =>
        /\ (d = ZeroDuration) => out = "0 seconds"
        /\ (d = [secs |-> 1, nanos |-> 0]) => out = "1 second"
        /\ (d.nanos # 0) =>
              /\ out \notin {"0 seconds", "1 second"}
              /\ out \in FractionalForms(d)


---------------------------------------------------------------------------
(* Properties of the parser's errors and of its steps *)

\* a directive whose value is malformed: a ';TIME:' or ';LAYER:' text that is
\* no unsigned integer, a move line with an X, Y or F value that is no number
Malformed(line) ==
    \/ line.kind \in {"TIME", "LAYER"} /\ ~IsNatural(line.num)
    \/ line.kind = "MOVE" /\ "bad" \in {line.x.p, line.y.p, line.f.p}

\* line i is the last line read and the parse was aborted there, with the
\* state the lines before it had produced and without a report
AbortedAt(i) ==
    /\ i = Len(consumed)
    /\ pc = "aborted"
    /\ report = NoReport
    /\ LET before == parse_file(SubSeq(consumed, 1, i - 1))
       IN  /\ before.ok
           /\ before.layers = layers
           /\ before.slicer = slicer_estimated_duration
           /\ before.layer = current_layer

\* C12 (as claimed): a malformed directive is fatal wherever it occurs: it
\* aborts the parse at once, no result is returned and no later line is
\* processed.
C12_MalformedDirectiveIsFatal ==
    \A i \in 1..Len(consumed) : Malformed(consumed[i]) => AbortedAt(i)

\* C12 (amended): a malformed ';TIME:' or ';LAYER:' line wherever it occurs,
\* and a malformed G0/G1 line that follows a ';LAYER:' marker, abort the parse
\* at once: no result is returned and no later line is processed.  A G0/G1
\* line before the first ';LAYER:' marker is skipped without being parsed, so
\* a malformed value on it causes no error.
C12_MalformedDirectiveIsFatalOnceLayered ==
    \A i \in 1..Len(consumed) :
        Malformed(consumed[i]) =>
            IF consumed[i].kind = "MOVE" /\ i < FirstLayerLine(consumed)
            THEN parse_file(SubSeq(consumed, 1, i)) = parse_file(SubSeq(consumed, 1, i - 1))
            ELSE AbortedAt(i)

\* a move with a malformed F value under layer 0, after one good move
C12_Witness ==
    /\ Len(consumed) = 3
    /\ consumed[1] = LayerLine(<<0>>)
    /\ consumed[2] = MoveLine(Tok(900), Tok(1200), Tok(10))
    /\ consumed[3] = MoveLine(Tok(900), NoTok, BadTok)
    /\ pc = "aborted"
    /\ layers = <<[distance |-> 1500, time |-> Fin(2500000)]>>


\* C13: a qualifying move processed while the feedrate is zero is a fatal
\* error: after any sequence of lines that parses successfully, no per-layer
\* record holds an infinite or undefined (NaN) time.
C13_NoNonFiniteTimeAfterSuccessfulParse ==
    (pc # "aborted") => \A i \in 1..Len(layers) : layers[i].time.k = "fin"


\* the step reads one more line of the same file
ReadsLine == Len(consumed') = Len(consumed) + 1
LineRead == consumed'[Len(consumed')]

\* the step is a qualifying move: a G0/G1 line read while a layer index is
\* current, and parsed without a panic
QualifyingMove ==
    ReadsLine /\ LineRead.kind = "MOVE" /\ current_layer.some /\ pc' = "reading"

\* the record of the current layer before the move (zero if the move creates it)
RecordBefore ==
    IF current_layer.v + 1 <= Len(layers) THEN layers[current_layer.v + 1] ELSE ZeroRecord

\* C14: the F token is a per-minute rate and the velocity used for timing is
\* that rate divided by 60: a move of distance dist (um) on a line with the
\* token F<v> (um/min) adds dist / (v / 60) seconds, that is
\* time * v = 60 * dist, with the time in seconds.
C14_FeedrateIsPerMinuteRateOver60 ==
    [][ (QualifyingMove /\ LineRead.f.p = "ok" /\ LineRead.f.v > 0) =>
            LET dist == layers'[current_layer.v + 1].distance - RecordBefore.distance
                added == layers'[current_layer.v + 1].time.v - RecordBefore.time.v
            IN  (RecordBefore.time.k = "fin") =>
                    /\ layers'[current_layer.v + 1].time.k = "fin"
                    /\ (added * LineRead.f.v) % MICROS_PER_SEC = 0
                    /\ (added * LineRead.f.v) \div MICROS_PER_SEC = 60 * dist ]_vars


\* the value a token gives, or the value before the line if it is absent
TokenOr(tok, before) == IF tok.p = "absent" THEN before ELSE tok.v

\* C15: head state is sticky: after a qualifying move line each of X, Y and
\* feedrate is what its token on the line gives (for F, the velocity of the
\* token) if present, and its value before the line otherwise; every other
\* line of the file, ';LAYER:' markers included, leaves position and feedrate
\* unchanged, and the displacement a move adds is measured from the position
\* the previous qualifying move left.
C15_HeadStateIsSticky ==
    [][ ReadsLine =>
          IF QualifyingMove
          THEN /\ current_x' = TokenOr(LineRead.x, current_x)
               /\ current_y' = TokenOr(LineRead.y, current_y)
               /\ current_feedrate' = TokenOr(FeedOf(LineRead.f), current_feedrate)
               /\ layers'[current_layer.v + 1].distance =
                      RecordBefore.distance + Hypot(current_x' - current_x, current_y' - current_y)
          ELSE /\ current_x' = current_x
               /\ current_y' = current_y
               /\ current_feedrate' = current_feedrate ]_vars

\* a full move on layer 0, a marker and another line, then a move back to the
\* origin without an F token: it is measured from (0.9, 1.2) and timed at the
\* feedrate of the first move
C15_Witness ==
    /\ Len(consumed) = 4
    /\ consumed[1] = LayerLine(<<0>>)
    /\ consumed[2] = MoveLine(Tok(900), Tok(1200), Tok(10))
    /\ consumed[3] = LayerLine(<<1>>)
    /\ consumed[4] = MoveLine(Tok(0), Tok(0), NoTok)
    /\ current_x = 0 /\ current_y = 0 /\ current_feedrate = 600
    /\ layers[2] = [distance |-> 1500, time |-> Fin(2500000)]


\* what main prints for a ParseResult
ReportOf(result) ==
    [ slicer |-> IF result.slicer.some
                 THEN Fmt([secs |-> result.slicer.v, nanos |-> 0]) ELSE "",
      total |-> Fmt(total_time(result.layers).v),
      laser |-> Fmt(laser_time(result.layers)),
      layer_change |-> Fmt(layer_change_time(result.layers)) ]

\* C16: parsing is deterministic and free of hidden state: whatever was
\* parsed before, the parser's state after the lines of the current file is
\* the one parse_file gives for those lines alone (so two runs on the same
\* lines agree on the record count, the distances and times, the
\* slicer-declared duration and the outcome), and the report printed is the
\* one of that result.
C16_ResultIsAFunctionOfTheLines ==
    LET alone == parse_file(consumed)
    IN  /\ alone.layers = layers
        /\ alone.slicer = slicer_estimated_duration
        /\ alone.x = current_x /\ alone.y = current_y
        /\ alone.feed = current_feedrate
        /\ alone.layer = current_layer
        /\ alone.ok = (pc # "aborted")
        /\ (pc = "reported") => report = ReportOf(alone)
        /\ (pc = "panicked") => ~total_time(alone.layers).some

\* the report of a one-move file
C16_Witness ==
    /\ pc = "reported"
    /\ consumed = << TimeLine(<<7>>), LayerLine(<<0>>), MoveLine(Tok(900), Tok(1200), Tok(10)) >>
    /\ layers = <<[distance |-> 1500, time |-> Fin(2500000)]>>
    /\ report.slicer = "7.0000 seconds"
    /\ report.laser = "2.0000 seconds"


\* the layer table and the head position and feedrate are what they were
HeadAndTableKept ==
    /\ layers' = layers
    /\ current_x' = current_x
    /\ current_y' = current_y
    /\ current_feedrate' = current_feedrate

\* C17: only qualifying move lines touch the layer table and the head
\* position and feedrate: a line that is no ';TIME:', ';LAYER:', 'G0 ' or
\* 'G1 ' line changes no state and causes no error; a ';TIME:' line changes at
\* most the slicer-declared duration; a ';LAYER:' line changes only the
\* current layer index (it adds no record and leaves position, feedrate and
\* slicer-declared duration unchanged).
C17_OnlyMovesTouchTableAndHead ==
    [][ ReadsLine =>
          /\ ~QualifyingMove => HeadAndTableKept
          /\ LineRead.kind = "OTHER" =>
                /\ pc' = "reading"
                /\ slicer_estimated_duration' = slicer_estimated_duration
                /\ current_layer' = current_layer
          /\ LineRead.kind = "TIME" => current_layer' = current_layer
          /\ LineRead.kind = "LAYER" =>
                slicer_estimated_duration' = slicer_estimated_duration ]_vars

\* a marker on an empty table, another line and an estimate: no record yet
C17_Witness ==
    /\ consumed = << LayerLine(<<3>>), OtherLine, TimeLine(<<5>>) >>
    /\ pc = "reading"
    /\ layers = <<>>
    /\ current_layer = Some(3)
    /\ slicer_estimated_duration = Some(5)
    /\ current_x = 0 /\ current_y = 0 /\ current_feedrate = 0


\* C18: a qualifying move adds its displacement length and its time
\* (displacement / feedrate, with the feedrate after the line's own F token)
\* to the record of the current layer index only: every other existing record
\* keeps its distance and time, a record the move creates on the way is zero,
\* and a move under an index below the table's length accumulates into the
\* existing record without changing the table's length.
C18_MoveAccumulatesIntoCurrentRecordOnly ==
    [][ QualifyingMove =>
          LET at == current_layer.v + 1
              displacement == Hypot(current_x' - current_x, current_y' - current_y)
          IN  /\ layers'[at] =
                    [ distance |-> RecordBefore.distance + displacement,
                      time |-> TimeAdd(RecordBefore.time,
                                       TimeDiv(displacement, current_feedrate')) ]
              /\ Len(layers') = IF at <= Len(layers) THEN Len(layers) ELSE at
              /\ \A i \in 1..Len(layers') :
                    i # at => layers'[i] = IF i <= Len(layers) THEN layers[i] ELSE ZeroRecord ]_vars

\* layer 1 first, then a move under layer 0: record 0 takes it, record 1 is kept
C18_Witness ==
    /\ consumed = << LayerLine(<<1>>), MoveLine(Tok(900), Tok(1200), Tok(10)),
                     LayerLine(<<0>>), MoveLine(Tok(0), Tok(0), NoTok) >>
    /\ pc = "reading"
    /\ layers = << [distance |-> 1500, time |-> Fin(2500000)],
                   [distance |-> 1500, time |-> Fin(2500000)] >>

\* the largest layer index that was current at an accumulated move
HighestMovedIndex == SetMax({ CurrentAt(i) : i \in AccumulatedMoves })

\* the length the table must have after the lines read so far
LengthLaw ==
    Len(layers) = IF AccumulatedMoves = {} THEN 0 ELSE 1 + HighestMovedIndex

\* C19: over any sequence of lines the table's length never decreases and is
\* 0 if no qualifying move has been processed, otherwise 1 + the largest layer
\* index that was current when a qualifying move was processed; records are
\* created only by moves, never by a ';LAYER:' marker alone, and every record
\* created as a gap starts with zero distance and zero time.
C19_TableLengthFollowsMoves ==
    [][ ReadsLine =>
          /\ Len(layers') >= Len(layers)
          /\ LengthLaw'
          /\ ~QualifyingMove => Len(layers') = Len(layers)
          /\ QualifyingMove =>
                \A i \in (Len(layers) + 1)..Len(layers') :
                    i # current_layer.v + 1 => layers'[i] = ZeroRecord ]_vars

\* markers 1 and 3 and a move under 1 only: two records, the gap record zero
C19_Witness ==
    /\ consumed = << LayerLine(<<1>>), MoveLine(Tok(900), Tok(1200), Tok(10)), LayerLine(<<3>>) >>
    /\ pc = "reading"
    /\ Len(layers) = 2
    /\ layers[1] = ZeroRecord
    /\ current_layer = Some(3)


\* C20: for every ParseResult parse_file returns, computing the report never
\* fails: laser_time(), layer_change_time() and total_time() each yield a
\* Duration and the addition in total_time() does not overflow, also when a
\* move was processed before any F token set a nonzero feedrate.
C20_ReportNeverFails ==
    Returned => (pc = "reported" /\ total_time(layers).some)

====
